---- MODULE Spec2Model ----
(***************************************************************************)
(* State-machine model of the WebGLDriver class of src/main.js: the       *)
(* constructor and init(), the requestAnimationFrame loop (startAnimation, *)
(* stopAnimation, animate), the resize handler and dispose().              *)
(*                                                                         *)
(* JavaScript is single threaded: browser events (a fired animation frame, *)
(* a resize event) and top-level user calls are taken only when the call   *)
(* stack is empty.  User code (the setup/update callbacks or a subclass    *)
(* override) runs in the middle of init() and animate(), and may call the  *)
(* public methods of the driver from there; the call stack is explicit so  *)
(* that these re-entrant calls are part of the model.                      *)
(*                                                                         *)
(* JavaScript values are written as their literal text: "undefined",       *)
(* "false", "true", "0", "400", "function".                                *)
(***************************************************************************)
EXTENDS Integers, Sequences, FiniteSets, TLC

\* ---------------------------------------------------------------- bounds
\* a scenario differs from `new WebGLDriver()` in a page that has loaded
\* OrbitControls and Stats in at most this many respects: a key present in
\* the options object (the logging switch `debug` is not counted), a
\* subclass, a library that is not loaded
MaxDeviation == 1
\* user code makes at most this many calls of driver methods in one task
\* (the constructor, a frame fired by the browser, a top-level call)
MaxCalls == 2
\* requestAnimationFrame handles are drawn from 1..MaxId
MaxId == 3
\* objects user code adds to the scene
MaxObjects == 1

\* ------------------------------------------------------- JavaScript values
Undefined == "undefined"
Falsy == {"undefined", "false", "0", "null"}
Truthy(v) == v \notin Falsy

\* numeric value of a numeric literal
Num(v) == IF v = "400" THEN 400 ELSE 0

Null == [kind |-> "null"]
\* animationId = null is written 0; handles returned by the browser are >= 1
NoId == 0

FlagKeys == {"autoStart", "antialias", "shadows", "controls"}
Keys == FlagKeys \cup {"setup", "update", "stats", "debug", "width", "height"}
FlagVals == {"false", "true", "0", "undefined"}
SizeVals == {"0", "400"}
ValsOf(k) ==
  IF k \in FlagKeys THEN FlagVals
  ELSE IF k \in {"setup", "update"} THEN {"function"}
  ELSE IF k \in {"stats", "debug"} THEN {"true"}
  ELSE SizeVals
AllVals == FlagVals \cup SizeVals \cup {"function"}

\* the options objects passed to the constructor
OptionObjects ==
  UNION { {o \in [K -> AllVals] : \A k \in K : o[k] \in ValsOf(k)} :
          K \in {S \in SUBSET Keys : Cardinality(S \ {"debug"}) <= MaxDeviation} }

\* options.k : undefined when the key is absent
Get(o, k) == IF k \in DOMAIN o THEN o[k] ELSE Undefined

\* window sizes the browser can take
WindowSizes == {<<800, 600>>, <<600, 600>>}
\* values returned by clock.getDelta() and clock.getElapsedTime() in a frame
ClockReadings == {<<0, 1>>, <<1, 2>>}

RECURSIVE GCD(_, _)
GCD(a, b) == IF b = 0 THEN a ELSE GCD(b, a % b)

\* the quotient w / h as a fraction in lowest terms;
\* <<1, 0>> is Infinity and <<0, 0>> is NaN
Quotient(w, h) ==
  IF h = 0 THEN (IF w = 0 THEN <<0, 0>> ELSE <<1, 0>>)
  ELSE <<w \div GCD(w, h), h \div GCD(w, h)>>

VARIABLES
  phase,        \* "new": before `new`; "constructing"; "ready": constructor returned
  options,      \* the options object given to the constructor
  klass,        \* "base": new WebGLDriver; "method"/"field": a subclass that
                \* overrides setup and update as prototype methods / class fields
  libs,         \* libs.orbit, libs.stats: THREE.OrbitControls / Stats are defined
  fields,       \* own properties `setup` and `update` of the instance
  config, setupCallback, updateCallback,
  scene, camera, renderer, controls, stats,
  animationId, isAnimating,
  pending,      \* handles of the frame callbacks the browser holds
  listener,     \* onWindowResize is registered for 'resize' on window
  canvasInDom,  \* number of times the canvas is a child of the container
  window,       \* <<innerWidth, innerHeight>>
  stack,        \* call stack: activations of init() and animate()
  lastFrame,    \* the last activation of animate() that returned
  hist,         \* history of the run (observations only)
  objects,      \* this.objects: the registry of named objects
  result        \* the last call of createMesh, createLight, addToScene or
                \* getObject: its arguments, what it returned, and the scene
                \* and the registry it found

vars == <<phase, options, klass, libs, fields, config, setupCallback,
          updateCallback, scene, camera, renderer, controls, stats,
          animationId, isAnimating, pending, listener, canvasInDom, window,
          stack, lastFrame, hist, objects, result>>

\* ------------------------------------------------------------ constructor
\* `options.k !== false`
NotFalse(v) == IF v # "false" THEN "true" ELSE "false"
\* `a || b`
Or(a, b) == IF Truthy(a) THEN a ELSE b
\* the value of option k as stored: sizes are numbers, the rest literals
JSVal(k, v) == IF k \in {"width", "height"} THEN Num(v) ELSE v

\* the named entries of the object literal of the constructor (lines 5-15)
Defaults(o, win) ==
  [ width     |-> IF Truthy(Get(o, "width")) THEN Num(o["width"]) ELSE win[1],
    height    |-> IF Truthy(Get(o, "height")) THEN Num(o["height"]) ELSE win[2],
    antialias |-> NotFalse(Get(o, "antialias")),
    shadows   |-> NotFalse(Get(o, "shadows")),
    controls  |-> NotFalse(Get(o, "controls")),
    stats     |-> Or(Get(o, "stats"), "false"),
    debug     |-> Or(Get(o, "debug"), "false"),
    autoStart |-> NotFalse(Get(o, "autoStart")) ]

\* this.config: the named entries followed by `...options` (line 16), which
\* overwrites every entry whose key is present in options
Config(o, win) ==
  [ k \in DOMAIN Defaults(o, win) \cup DOMAIN o |->
      IF k \in DOMAIN o THEN JSVal(k, o[k]) ELSE Defaults(o, win)[k] ]

\* this._setupCallback = options.setup || null (and likewise for update)
Callback(o, k) == Or(Get(o, k), "null")

createScene == [kind |-> "scene", children |-> <<>>]

createCamera(cfg) ==
  [kind |-> "camera", aspect |-> Quotient(cfg.width, cfg.height)]

createRenderer(cfg) ==
  [kind      |-> "renderer",
   antialias |-> cfg.antialias,
   size      |-> <<cfg.width, cfg.height>>,
   shadowMap |-> Truthy(cfg.shadows),
   disposed  |-> FALSE]

Light(type, cast) == [type |-> type, castShadow |-> cast, name |-> ""]

createLights_alwaysShadow(scn, cfg) ==
  [scn EXCEPT !.children =
     @ \o << Light("AmbientLight", FALSE),
             Light("DirectionalLight", TRUE) >>]

createLights(scn, cfg) ==
  [scn EXCEPT !.children =
     @ \o << Light("AmbientLight", FALSE),
             Light("DirectionalLight", Truthy(cfg.shadows)) >>]

createControls(cfg) ==
  IF libs.orbit THEN [kind |-> "controls", disposed |-> FALSE] ELSE Null

createStats(cfg) ==
  IF libs.stats THEN [kind |-> "stats", inDom |-> TRUE] ELSE Null

Warnings_unconditional(cfg) ==
  {w \in {"OrbitControls", "Stats"} :
      \/ w = "OrbitControls" /\ Truthy(cfg.controls) /\ ~libs.orbit
      \/ w = "Stats" /\ Truthy(cfg.stats) /\ ~libs.stats}

\* console.warn of createControls / createStats
Warnings(cfg) ==
  {w \in {"OrbitControls", "Stats"} :
      /\ Truthy(cfg.debug)
      /\ \/ w = "OrbitControls" /\ Truthy(cfg.controls) /\ ~libs.orbit
         \/ w = "Stats" /\ Truthy(cfg.stats) /\ ~libs.stats}

\* window.addEventListener('resize', this.onWindowResize, false)
setupEventListeners == TRUE

\* property lookup on the instance: an own property shadows the prototype
\* chain; the arrow-function class fields of WebGLDriver are own properties
Lookup(name) ==
  IF name \in DOMAIN fields THEN fields[name]
  ELSE IF klass = "method" THEN "sub" ELSE "base"

\* own properties after the constructor of the class has returned: the class
\* fields of a subclass are assigned when super() has returned
FieldsAfterSuper ==
  IF klass = "field" THEN [setup |-> "sub", update |-> "sub"] ELSE fields

\* ------------------------------------------------ factories and registry

\* values of the options of createMesh and createLight: undefined,
\* a number, a string, a boolean, or an object {x, y, z}
Absent == [kind |-> "undefined"]
Number(n) == [num |-> n]
String(s) == [str |-> s]
Bool(b) == [bool |-> b]
Vector(x, y, z) == [x |-> x, y |-> y, z |-> z]

\* truthiness: undefined, null, 0, "" and false are falsy, objects are truthy
ToBoolean(v) ==
  IF v = Absent \/ v = Null THEN FALSE
  ELSE IF "num" \in DOMAIN v THEN v.num # 0
  ELSE IF "str" \in DOMAIN v THEN v.str # ""
  ELSE IF "bool" \in DOMAIN v THEN v.bool
  ELSE TRUE

\* a || b
OrElse(a, b) == IF ToBoolean(a) THEN a ELSE b

\* the type argument of createLight: its letters in lower case and the
\* positions of the letters that are upper case
Cased(s, caps) == [lower |-> s, caps |-> caps]
toLowerCase(t) == [t EXCEPT !.caps = {}]

White == 16777215
Ground == 4473924

\* this.objects = {} : no own property
NoObjects == [n \in {} |-> Null]
NoResult == [op |-> "none"]

\* properties a plain object inherits from Object.prototype
ObjectPrototype == {"constructor"}

\* reg[name]: own properties first, then the prototype chain
Property(reg, name) ==
  IF name \in DOMAIN reg THEN reg[name]
  ELSE IF name \in ObjectPrototype THEN [function |-> name]
  ELSE Absent

\* reg[name] = object
Register(reg, name, object) ==
  [n \in DOMAIN reg \cup {name} |-> IF n = name THEN object ELSE reg[n]]

\* scene.add(object), line 238
addToScene(scn, object) == [scn EXCEPT !.children = Append(@, object)]

\* scene.getObjectByName(name): the scene itself (whose name is ""), then its
\* descendants in order; undefined when none carries the name
getObjectByName(scn, name) ==
  IF name = "" THEN scn
  ELSE LET hits == SelectSeq(scn.children, LAMBDA c : c.name = name)
       IN IF hits = <<>> THEN Absent ELSE hits[1]

\* line 427
getObject(name) ==
  OrElse(OrElse(Property(objects, name), getObjectByName(scene, name)), Null)

\* (v.x || d, v.y || d, v.z || d)
Vector3(v, d) ==
  <<OrElse(v.x, Number(d)).num, OrElse(v.y, Number(d)).num,
    OrElse(v.z, Number(d)).num>>

\* what a call leaves behind for the observer
Result(op, args, ret, warned) ==
  [op |-> op, args |-> args, ret |-> ret, warned |-> warned,
   scene0 |-> scene, objects0 |-> objects]

\* new THREE.Mesh and lines 337-357
Mesh(opts) ==
  [type          |-> "Mesh",
   id            |-> Len(scene.children) + 1,
   position      |-> IF ToBoolean(opts.position)
                     THEN Vector3(opts.position, 0) ELSE <<0, 0, 0>>,
   rotation      |-> IF ToBoolean(opts.rotation)
                     THEN Vector3(opts.rotation, 0) ELSE <<0, 0, 0>>,
   scale         |-> IF ToBoolean(opts.scale)
                     THEN IF "num" \in DOMAIN opts.scale
                          THEN <<opts.scale.num, opts.scale.num,
                                 opts.scale.num>>
                          ELSE Vector3(opts.scale, 1)
                     ELSE <<1, 1, 1>>,
   castShadow    |-> IF opts.castShadow # Absent
                     THEN opts.castShadow.bool ELSE FALSE,
   receiveShadow |-> IF opts.receiveShadow # Absent
                     THEN opts.receiveShadow.bool ELSE FALSE,
   name          |-> IF ToBoolean(opts.name) THEN opts.name.str ELSE ""]

createMesh_unregistered(geometry, material, opts) ==
  /\ objects' = objects
  /\ scene' = addToScene(scene, Mesh(opts))
  /\ result' = Result("createMesh", [options |-> opts], Mesh(opts), FALSE)

\* lines 334-368
createMesh(geometry, material, opts) ==
  /\ objects' = IF ToBoolean(opts.name)
                THEN Register(objects, opts.name.str, Mesh(opts))
                ELSE objects
  /\ scene' = addToScene(scene, Mesh(opts))
  /\ result' = Result("createMesh", [options |-> opts], Mesh(opts), FALSE)

\* the case labels of the switch at line 379 and the class each constructs
LightClass ==
  [ambient |-> "AmbientLight", directional |-> "DirectionalLight",
   point |-> "PointLight", spot |-> "SpotLight",
   hemisphere |-> "HemisphereLight"]

\* the switch finds a case label strictly equal to the string t
Matches(t) == t.caps = {} /\ t.lower \in DOMAIN LightClass

\* the light built by the case t of the switch, lines 380-413; position <<>>
\* is the position the constructor of the class gave it
NewLight(t, opts) ==
  [type       |-> LightClass[t.lower],
   id         |-> Len(scene.children) + 1,
   color      |-> IF t.lower = "hemisphere"
                  THEN OrElse(opts.skyColor, Number(White)).num
                  ELSE OrElse(opts.color, Number(White)).num,
   ground     |-> IF t.lower = "hemisphere"
                  THEN OrElse(opts.groundColor, Number(Ground)).num
                  ELSE 0,
   intensity  |-> OrElse(opts.intensity, Number(1)).num,
   position   |-> IF ToBoolean(opts.position)
                  THEN Vector3(opts.position, 0) ELSE <<>>,
   castShadow |-> ToBoolean(opts.castShadow) /\ Truthy(config.shadows),
   name       |-> IF ToBoolean(opts.name) THEN opts.name.str ELSE ""]

\* lines 380-418 for the case t, or lines 395-397 when no case matches
Switch(t, type, opts) ==
  IF Matches(t)
  THEN /\ objects' = IF ToBoolean(opts.name)
                     THEN Register(objects, opts.name.str, NewLight(t, opts))
                     ELSE objects
       /\ scene' = addToScene(scene, NewLight(t, opts))
       /\ result' = Result("createLight", [type |-> type, options |-> opts],
                           NewLight(t, opts), FALSE)
  ELSE /\ UNCHANGED <<objects, scene>>
       /\ result' = Result("createLight", [type |-> type, options |-> opts],
                           Null, TRUE)

createLight_caseSensitive(type, opts) == Switch(type, type, opts)

createLight_registersFirst(type, opts) ==
  IF Matches(toLowerCase(type))
  THEN Switch(toLowerCase(type), type, opts)
  ELSE /\ objects' = IF ToBoolean(opts.name)
                     THEN Register(objects, opts.name.str, Null)
                     ELSE objects
       /\ UNCHANGED scene
       /\ result' = Result("createLight", [type |-> type, options |-> opts],
                           Null, TRUE)

\* lines 376-419
createLight(type, opts) == Switch(toLowerCase(type), type, opts)

\* -------------------------------------------------- inputs of the factories

Transform(p, r, s) == [position |-> p, rotation |-> r, scale |-> s]
Transforms ==
  { Transform(Absent, Absent, Absent),
    Transform(Absent, Absent, Number(2)),
    Transform(Absent, Absent, Number(0)),
    Transform(Absent, Absent, Vector(Number(0), Number(2), Number(3))),
    Transform(Vector(Number(0), Number(2), Absent), Absent, Absent),
    Transform(Vector(Number(2), Absent, Absent),
              Vector(Absent, Number(1), Absent),
              Vector(Number(2), Absent, Absent)) }

MeshNames == {Absent, String(""), String("box"), String("constructor")}

MeshOptions ==
  { [name |-> n, position |-> t.position, rotation |-> t.rotation,
     scale |-> t.scale, castShadow |-> c, receiveShadow |-> Absent] :
      n \in MeshNames, t \in Transforms, c \in {Absent, Bool(TRUE)} }

LightOption(color, intensity, position, cast, name) ==
  [color |-> color, intensity |-> intensity, skyColor |-> Absent,
   groundColor |-> Absent, position |-> position, castShadow |-> cast,
   name |-> name]
LightOptions ==
  { LightOption(Absent, Absent, Absent, Absent, Absent),
    LightOption(Absent, Number(0), Absent, Absent, Absent),
    LightOption(Number(0), Number(2), Absent, Absent, Absent),
    LightOption(Number(255), Absent, Absent, Bool(TRUE), String("lamp")),
    LightOption(Absent, Absent, Vector(Number(1), Absent, Absent), Absent,
                String("box")) }

LightTypes ==
  { Cased("ambient", {}), Cased("directional", {1}),
    Cased("point", {1, 2, 3, 4, 5}), Cased("spot", {}),
    Cased("hemisphere", {1, 5}), Cased("laser", {}), Cased("", {}) }

\* objects made by user code with THREE directly, for addToScene
Loose == { [type |-> "Object3D", id |-> Len(scene.children) + 1, name |-> "box"] }

QueryNames == {"", "box", "constructor", "lamp"}

NoFrame == [fn |-> "none"]

Deviations(o, k, l) ==
  Cardinality(DOMAIN o \ {"debug"}) + (IF k = "base" THEN 0 ELSE 1)
  + (IF l.orbit THEN 0 ELSE 1) + (IF l.stats THEN 0 ELSE 1)

Scenarios ==
  {sc \in [options : OptionObjects,
           klass : {"base", "method", "field"},
           libs : [orbit : BOOLEAN, stats : BOOLEAN]] :
      Deviations(sc.options, sc.klass, sc.libs) <= MaxDeviation}

Init ==
  /\ phase = "new"
  /\ \E sc \in Scenarios :
       /\ options = sc.options
       /\ klass = sc.klass
       /\ libs = sc.libs
  /\ fields = [setup |-> "base", update |-> "base"]
  /\ config = Null
  /\ setupCallback = "null"
  /\ updateCallback = "null"
  /\ scene = Null
  /\ camera = Null
  /\ renderer = Null
  /\ controls = Null
  /\ stats = Null
  /\ animationId = NoId
  /\ isAnimating = FALSE
  /\ pending = {}
  /\ listener = FALSE
  /\ canvasInDom = 0
  /\ window = <<800, 600>>
  /\ stack = <<>>
  /\ lastFrame = NoFrame
  /\ hist = [setups |-> <<>>, updated |-> FALSE, rendered |-> FALSE,
             ctorCalls |-> FALSE, disposed |-> FALSE, resized |-> FALSE,
             warns |-> {}, built |-> <<>>, restart |-> "none",
             loop |-> "none"]
  /\ objects = NoObjects
  /\ result = NoResult

\* new WebGLDriver(options), up to the call of the user setup:
\* constructor (lines 2-39) and init (lines 46-59)
Construct ==
  /\ phase = "new"
  /\ phase' = "constructing"
  /\ config' = Config(options, window)
  /\ setupCallback' = Callback(options, "setup")
  /\ updateCallback' = Callback(options, "update")
  /\ scene' = createLights(createScene, config')
  /\ camera' = createCamera(config')
  /\ renderer' = createRenderer(config')
  /\ canvasInDom' = canvasInDom + 1
  /\ controls' = IF Truthy(config'.controls) THEN createControls(config') ELSE Null
  /\ stats' = IF Truthy(config'.stats) THEN createStats(config') ELSE Null
  /\ listener' = setupEventListeners
  /\ stack' = <<[fn |-> "init", pc |-> "setup", impl |-> "none", calls |-> 0]>>
  /\ hist' = [hist EXCEPT !.warns = Warnings(config')]
  /\ UNCHANGED <<options, klass, libs, fields, animationId, isAnimating,
                 pending, window, lastFrame>>
  /\ UNCHANGED <<objects, result>>

\* ------------------------------------------------------------- call stack
Top == stack[Len(stack)]
SetTop(stk, r) == [stk EXCEPT ![Len(stk)] = r]
Pop(stk) == SubSeq(stk, 1, Len(stk) - 1)
\* number of activations of animate() on the stack
Depth == Cardinality({i \in DOMAIN stack : stack[i].fn = "animate"})
RECURSIVE SumCalls(_)
SumCalls(stk) == IF stk = <<>> THEN 0 ELSE stk[1].calls + SumCalls(Tail(stk))
\* calls of driver methods made by user code in the current task
TaskCalls == SumCalls(stack)
\* the stack after its top activation has returned; the calls the activation
\* made are counted with those of its caller
Return(stk) ==
  IF Len(stk) = 1 THEN <<>>
  ELSE SetTop(Pop(stk), [stk[Len(stk) - 1] EXCEPT
                           !.calls = @ + stk[Len(stk)].calls])

Ev(op, impl, args) == [op |-> op, impl |-> impl, args |-> args]

\* observation: a log with the number of arguments in place of their values
Record(log) ==
  [i \in DOMAIN log |-> [op |-> log[i].op, impl |-> log[i].impl,
                         nargs |-> Len(log[i].args)]]

\* observation: the state of the loop at the moment the constructor returns
Built(h) ==
  IF phase = "constructing" /\ phase' = "ready"
  THEN [h EXCEPT !.built = <<[isAnimating |-> isAnimating',
                              pending |-> Cardinality(pending'),
                              updated |-> h.updated]>>]
  ELSE h

\* observation: who first called startAnimation since the last dispose
Restart(who) ==
  IF hist.disposed /\ hist.restart = "none" THEN who ELSE hist.restart

\* observation: the last call that addressed the loop: a startAnimation that
\* found it running ("noop") or not ("ran"), or a stopAnimation that found it
\* running ("stop")
Started == IF isAnimating THEN "noop" ELSE "ran"

\* a call has returned to the activation on top of stk; when that is init()
\* waiting for its startAnimation() (line 70), init and the constructor
\* return as well
Unwind(stk) ==
  IF stk # <<>> /\ stk[Len(stk)].fn = "init" /\ stk[Len(stk)].pc = "autostart"
  THEN /\ stack' = <<>>
       /\ phase' = "ready"
       /\ fields' = FieldsAfterSuper
  ELSE /\ stack' = stk
       /\ UNCHANGED <<phase, fields>>

\* ---------------------------------------------------------- animation loop
\* the handle returned by requestAnimationFrame: one that is neither held
\* by the browser nor stored in animationId
FreeIds(pend) == (1..MaxId) \ (pend \cup {animationId})
FreshId(pend) == CHOOSE i \in FreeIds(pend) : \A j \in FreeIds(pend) : i <= j

FrameHead_renderFirst ==
  <<Ev("requestAnimationFrame", "", <<>>),
    Ev("render", "", <<"scene", "camera">>)>>
  \o (IF stats # Null THEN <<Ev("stats.begin", "", <<>>)>> ELSE <<>>)
  \o (IF controls # Null THEN <<Ev("controls.update", "", <<>>)>> ELSE <<>>)

\* what a frame does before the user update, lines 206-219
FrameHead ==
  <<Ev("requestAnimationFrame", "", <<>>)>>
  \o (IF stats # Null THEN <<Ev("stats.begin", "", <<>>)>> ELSE <<>>)
  \o (IF controls # Null THEN <<Ev("controls.update", "", <<>>)>> ELSE <<>>)

UserUpdate_both(dt, et) ==
  IF Truthy(updateCallback)
  THEN <<Ev("update", "callback", <<dt, et>>),
         Ev("update", Lookup("update"), <<dt, et>>)>>
  ELSE <<Ev("update", Lookup("update"), <<dt, et>>)>>

\* the user update invoked by a frame, lines 222-226
UserUpdate(dt, et) ==
  IF Truthy(updateCallback)
  THEN <<Ev("update", "callback", <<dt, et>>)>>
  ELSE <<Ev("update", Lookup("update"), <<dt, et>>)>>

\* what a frame does after the user update, lines 229-234
FrameTail ==
  <<Ev("render", "", <<"scene", "camera">>)>>
  \o (IF stats # Null THEN <<Ev("stats.end", "", <<>>)>> ELSE <<>>)

animate_noSuccessor(stk, pend, animating) ==
  IF ~animating
  THEN /\ pending' = pend
       /\ animationId' = animationId
       /\ Unwind(stk)
  ELSE /\ animationId' = animationId
       /\ pending' = pend
       /\ \E t \in ClockReadings :
            stack' = Append(stk, [fn |-> "animate", pc |-> "update",
                                  impl |-> "none", calls |-> 0,
                                  dt |-> t[1], et |-> t[2], log |-> FrameHead])
       /\ UNCHANGED <<phase, fields>>

\* animate(), lines 203-219, called with the stack stk of its caller while
\* the browser holds the handles pend and isAnimating has the value animating
animate(stk, pend, animating) ==
  IF ~animating
  THEN /\ pending' = pend
       /\ animationId' = animationId
       /\ Unwind(stk)
  ELSE /\ FreeIds(pend) # {}
       /\ animationId' = FreshId(pend)
       /\ pending' = pend \cup {FreshId(pend)}
       /\ \E t \in ClockReadings :
            stack' = Append(stk, [fn |-> "animate", pc |-> "update",
                                  impl |-> "none", calls |-> 0,
                                  dt |-> t[1], et |-> t[2], log |-> FrameHead])
       /\ UNCHANGED <<phase, fields>>

startAnimation_deferred(stk) ==
  IF ~isAnimating
  THEN /\ isAnimating' = TRUE
       /\ animationId' = FreshId(pending)
       /\ pending' = pending \cup {FreshId(pending)}
       /\ Unwind(stk)
  ELSE /\ UNCHANGED <<isAnimating, animationId, pending>>
       /\ Unwind(stk)

startAnimation_unguarded(stk) ==
  /\ isAnimating' = TRUE
  /\ animate(stk, pending, TRUE)

startAnimation(stk) ==
  IF ~isAnimating
  THEN /\ isAnimating' = TRUE
       /\ animate(stk, pending, TRUE)
  ELSE /\ UNCHANGED <<isAnimating, animationId, pending>>
       /\ Unwind(stk)

stopAnimation_noCancel ==
  IF animationId # NoId
  THEN /\ pending' = pending
       /\ animationId' = NoId
       /\ isAnimating' = FALSE
  ELSE UNCHANGED <<pending, animationId, isAnimating>>

stopAnimation ==
  IF animationId # NoId
  THEN /\ pending' = pending \ {animationId}
       /\ animationId' = NoId
       /\ isAnimating' = FALSE
  ELSE UNCHANGED <<pending, animationId, isAnimating>>

onWindowResize_staleAspect ==
  /\ config' = [config EXCEPT !.width = window'[1], !.height = window'[2]]
  /\ camera' = [camera EXCEPT !.aspect = Quotient(config.width, config.height)]
  /\ renderer' = [renderer EXCEPT !.size = <<config'.width, config'.height>>]

\* lines 172-180; window' is the size the browser reports
onWindowResize ==
  /\ config' = [config EXCEPT !.width = window'[1], !.height = window'[2]]
  /\ camera' = [camera EXCEPT !.aspect = Quotient(config'.width, config'.height)]
  /\ renderer' = [renderer EXCEPT !.size = <<config'.width, config'.height>>]

dispose_keepsListener ==
  /\ stopAnimation
  /\ listener' = listener
  /\ controls' = IF controls # Null THEN [controls EXCEPT !.disposed = TRUE]
                 ELSE controls
  /\ stats' = IF stats # Null /\ stats.inDom THEN [stats EXCEPT !.inDom = FALSE]
              ELSE stats
  /\ canvasInDom' = IF renderer # Null /\ canvasInDom > 0 THEN canvasInDom - 1
                    ELSE canvasInDom
  /\ renderer' = IF renderer # Null THEN [renderer EXCEPT !.disposed = TRUE]
                 ELSE renderer

dispose_noStop ==
  /\ UNCHANGED <<pending, animationId, isAnimating>>
  /\ listener' = FALSE
  /\ controls' = IF controls # Null THEN [controls EXCEPT !.disposed = TRUE]
                 ELSE controls
  /\ stats' = IF stats # Null /\ stats.inDom THEN [stats EXCEPT !.inDom = FALSE]
              ELSE stats
  /\ canvasInDom' = IF renderer # Null /\ canvasInDom > 0 THEN canvasInDom - 1
                    ELSE canvasInDom
  /\ renderer' = IF renderer # Null THEN [renderer EXCEPT !.disposed = TRUE]
                 ELSE renderer

dispose ==
  /\ stopAnimation
  /\ listener' = FALSE
  /\ controls' = IF controls # Null THEN [controls EXCEPT !.disposed = TRUE]
                 ELSE controls
  /\ stats' = IF stats # Null /\ stats.inDom THEN [stats EXCEPT !.inDom = FALSE]
              ELSE stats
  /\ canvasInDom' = IF renderer # Null /\ canvasInDom > 0 THEN canvasInDom - 1
                    ELSE canvasInDom
  /\ renderer' = IF renderer # Null THEN [renderer EXCEPT !.disposed = TRUE]
                 ELSE renderer

\* ------------------------------------------------------------------- init
UserSetup_both ==
  IF Truthy(setupCallback) THEN <<"callback", Lookup("setup")>>
  ELSE <<Lookup("setup")>>

\* the user setup invoked by init, lines 62-66
UserSetup ==
  IF Truthy(setupCallback) THEN <<"callback">> ELSE <<Lookup("setup")>>

\* what the user setup finds when it is invoked
Snapshot ==
  [scene    |-> scene # Null,
   camera   |-> camera # Null,
   renderer |-> renderer # Null,
   lights   |-> IF scene # Null
                THEN [i \in DOMAIN scene.children |-> scene.children[i].type]
                ELSE <<>>,
   casts    |-> IF scene # Null
                THEN [i \in DOMAIN scene.children |-> scene.children[i].castShadow]
                ELSE <<>>,
   canvas   |-> canvasInDom,
   listener |-> listener,
   updated  |-> hist.updated,
   rendered |-> hist.rendered]

CallSetup ==
  /\ stack # <<>> /\ Top.fn = "init" /\ Top.pc = "setup"
  /\ stack' = SetTop(stack, [Top EXCEPT !.pc = "in_setup",
                                        !.impl = UserSetup[Len(UserSetup)]])
  /\ hist' = [hist EXCEPT
       !.setups = @ \o [i \in DOMAIN UserSetup |->
                          [impl |-> UserSetup[i], snap |-> Snapshot]]]
  /\ UNCHANGED <<phase, options, klass, libs, fields, config, setupCallback,
                 updateCallback, scene, camera, renderer, controls, stats,
                 animationId, isAnimating, pending, listener, canvasInDom,
                 window, lastFrame>>
  /\ UNCHANGED <<objects, result>>

\* the user setup returns; init auto-starts the loop, lines 68-71
SetupReturn ==
  /\ stack # <<>> /\ Top.fn = "init" /\ Top.pc = "in_setup"
  /\ IF Truthy(config.autoStart)
     THEN startAnimation(SetTop(stack, [Top EXCEPT !.pc = "autostart"]))
     ELSE /\ stack' = <<>>
          /\ phase' = "ready"
          /\ fields' = FieldsAfterSuper
          /\ UNCHANGED <<isAnimating, animationId, pending>>
  /\ UNCHANGED <<options, klass, libs, config, setupCallback, updateCallback,
                 scene, camera, renderer, controls, stats, listener,
                 canvasInDom, window, lastFrame>>
  /\ hist' = Built([hist EXCEPT !.restart = IF Truthy(config.autoStart)
                                            THEN Restart("init") ELSE @,
                                 !.loop = IF Truthy(config.autoStart)
                                          THEN Started ELSE @])
  /\ UNCHANGED <<objects, result>>

\* ------------------------------------------------------------------ frames
\* the browser runs a frame callback it holds
FireFrame ==
  /\ stack = <<>>
  /\ \E id \in pending : animate(<<>>, pending \ {id}, isAnimating)
  /\ UNCHANGED <<options, klass, libs, config, setupCallback, updateCallback,
                 scene, camera, renderer, controls, stats, isAnimating,
                 listener, canvasInDom, window, lastFrame, hist>>
  /\ UNCHANGED <<objects, result>>

\* lines 221-226
CallUpdate ==
  /\ stack # <<>> /\ Top.fn = "animate" /\ Top.pc = "update"
  /\ LET u == UserUpdate(Top.dt, Top.et)
     IN /\ stack' = SetTop(stack, [Top EXCEPT !.pc = "in_update",
                                              !.impl = u[Len(u)].impl,
                                              !.log = @ \o u])
        /\ hist' = [hist EXCEPT !.updated = @ \/ u # <<>>]
  /\ UNCHANGED <<phase, options, klass, libs, fields, config, setupCallback,
                 updateCallback, scene, camera, renderer, controls, stats,
                 animationId, isAnimating, pending, listener, canvasInDom,
                 window, lastFrame>>
  /\ UNCHANGED <<objects, result>>

\* the user update returns; lines 228-235
FrameReturn ==
  /\ stack # <<>> /\ Top.fn = "animate" /\ Top.pc = "in_update"
  /\ lastFrame' = [fn |-> "animate", log |-> Record(Top.log \o FrameTail)]
  /\ Unwind(Return(stack))
  /\ UNCHANGED <<options, klass, libs, config, setupCallback, updateCallback,
                 scene, camera, renderer, controls, stats, animationId,
                 isAnimating, pending, listener, canvasInDom, window>>
  /\ hist' = Built([hist EXCEPT !.rendered = TRUE])
  /\ UNCHANGED <<objects, result>>

\* --------------------------------------------------------------- user calls
\* user code is running: a setup or update callback or a subclass override
InUserCode ==
  /\ stack # <<>>
  /\ Top.pc \in {"in_setup", "in_update"}
  /\ Top.impl \in {"callback", "sub"}

\* a method of the driver can be called: from the top level once the
\* constructor has returned, or from user code
CanCall ==
  \/ phase = "ready" /\ stack = <<>>
  \/ InUserCode /\ TaskCalls < MaxCalls

Caller == IF stack = <<>> THEN <<>> ELSE SetTop(stack, [Top EXCEPT !.calls = @ + 1])

Called(name) ==
  [hist EXCEPT !.ctorCalls = @ \/ phase = "constructing",
               !.disposed = @ \/ name = "dispose",
               !.restart = IF name = "dispose" THEN "none"
                           ELSE IF name = "startAnimation" THEN Restart("user")
                           ELSE @,
               !.loop = IF name = "startAnimation" THEN Started
                        ELSE IF name \in {"stopAnimation", "dispose"}
                                /\ isAnimating
                        THEN "stop"
                        ELSE @]

StartAnimation ==
  /\ CanCall
  /\ startAnimation(Caller)
  /\ hist' = Called("startAnimation")
  /\ UNCHANGED <<options, klass, libs, config, setupCallback, updateCallback,
                 scene, camera, renderer, controls, stats, listener,
                 canvasInDom, window, lastFrame>>
  /\ UNCHANGED <<objects, result>>

StopAnimation ==
  /\ CanCall
  /\ stopAnimation
  /\ stack' = Caller
  /\ hist' = Called("stopAnimation")
  /\ UNCHANGED <<phase, options, klass, libs, fields, config, setupCallback,
                 updateCallback, scene, camera, renderer, controls, stats,
                 listener, canvasInDom, window, lastFrame>>
  /\ UNCHANGED <<objects, result>>

Dispose ==
  /\ CanCall
  /\ dispose
  /\ stack' = Caller
  /\ hist' = Called("dispose")
  /\ UNCHANGED <<phase, options, klass, libs, fields, config, setupCallback,
                 updateCallback, scene, camera, window, lastFrame>>
  /\ UNCHANGED <<objects, result>>

\* the browser window changes size and dispatches a resize event
Resize ==
  /\ stack = <<>>
  /\ \E sz \in WindowSizes \ {window} : window' = sz
  /\ IF listener THEN onWindowResize
     ELSE UNCHANGED <<config, camera, renderer>>
  /\ hist' = [hist EXCEPT !.resized = @ \/ phase = "ready"]
  /\ UNCHANGED <<phase, options, klass, libs, fields, setupCallback,
                 updateCallback, scene, controls, stats, animationId,
                 isAnimating, pending, listener, canvasInDom, stack,
                 lastFrame>>
  /\ UNCHANGED <<objects, result>>

Next ==
  \/ Construct
  \/ CallSetup
  \/ SetupReturn
  \/ FireFrame
  \/ CallUpdate
  \/ FrameReturn
  \/ StartAnimation
  \/ StopAnimation
  \/ Dispose
  \/ Resize

Spec == Init /\ [][Next]_vars

\* The loop under its scheduling assumptions: the browser eventually runs a
\* frame callback it holds, and code that has started runs to completion
\* (init, animate and the user code they call return).  The scenarios are
\* those whose options concern the loop.
LoopKeys == {"setup", "update", "autoStart"}
InitLoop == Init /\ DOMAIN options \subseteq LoopKeys
Fairness ==
  /\ WF_vars(FireFrame)
  /\ WF_vars(CallSetup)
  /\ WF_vars(SetupReturn)
  /\ WF_vars(CallUpdate)
  /\ WF_vars(FrameReturn)
LoopSpec == InitLoop /\ [][Next]_vars /\ Fairness

\* ------------------------------------------- building and querying a scene

\* objects user code has added to the scene
Added == Len(scene.children) - Len(createLights(createScene, config).children)

CreateMesh ==
  /\ CanCall
  /\ Added < MaxObjects
  /\ \E o \in MeshOptions : createMesh("geometry", "material", o)
  /\ stack' = Caller
  /\ hist' = Called("createMesh")
  /\ UNCHANGED <<phase, options, klass, libs, fields, config, setupCallback,
                 updateCallback, camera, renderer, controls, stats,
                 animationId, isAnimating, pending, listener, canvasInDom,
                 window, lastFrame>>

CreateLight ==
  /\ CanCall
  /\ Added < MaxObjects
  /\ \E t \in LightTypes, o \in LightOptions : createLight(t, o)
  /\ stack' = Caller
  /\ hist' = Called("createLight")
  /\ UNCHANGED <<phase, options, klass, libs, fields, config, setupCallback,
                 updateCallback, camera, renderer, controls, stats,
                 animationId, isAnimating, pending, listener, canvasInDom,
                 window, lastFrame>>

AddToScene ==
  /\ CanCall
  /\ Added < MaxObjects
  /\ \E object \in Loose :
       /\ scene' = addToScene(scene, object)
       /\ result' = Result("addToScene", [object |-> object], object, FALSE)
  /\ stack' = Caller
  /\ hist' = Called("addToScene")
  /\ UNCHANGED <<phase, options, klass, libs, fields, config, setupCallback,
                 updateCallback, camera, renderer, controls, stats,
                 animationId, isAnimating, pending, listener, canvasInDom,
                 window, lastFrame, objects>>

GetObject ==
  /\ CanCall
  /\ \E name \in QueryNames :
       result' = Result("getObject", [name |-> name], getObject(name), FALSE)
  /\ stack' = Caller
  /\ hist' = Called("getObject")
  /\ UNCHANGED <<phase, options, klass, libs, fields, config, setupCallback,
                 updateCallback, scene, camera, renderer, controls, stats,
                 animationId, isAnimating, pending, listener, canvasInDom,
                 window, lastFrame, objects>>

\* drivers that do not start the loop, with or without a setup callback and
\* with or without shadows
SceneOptions ==
  { o \in [{"autoStart"} -> {"false"}] \cup [{"autoStart", "setup"} -> AllVals]
          \cup [{"autoStart", "shadows"} -> {"false"}] :
      /\ o["autoStart"] = "false"
      /\ \A k \in DOMAIN o : o[k] \in ValsOf(k) }

InitScene ==
  /\ phase = "new"
  /\ options \in SceneOptions
  /\ klass = "base"
  /\ libs = [orbit |-> TRUE, stats |-> TRUE]
  /\ fields = [setup |-> "base", update |-> "base"]
  /\ config = Null
  /\ setupCallback = "null"
  /\ updateCallback = "null"
  /\ scene = Null
  /\ camera = Null
  /\ renderer = Null
  /\ controls = Null
  /\ stats = Null
  /\ animationId = NoId
  /\ isAnimating = FALSE
  /\ pending = {}
  /\ listener = FALSE
  /\ canvasInDom = 0
  /\ window = <<800, 600>>
  /\ stack = <<>>
  /\ lastFrame = NoFrame
  /\ hist = [setups |-> <<>>, updated |-> FALSE, rendered |-> FALSE,
             ctorCalls |-> FALSE, disposed |-> FALSE, resized |-> FALSE,
             warns |-> {}, built |-> <<>>, restart |-> "none",
             loop |-> "none"]
  /\ objects = NoObjects
  /\ result = NoResult

SceneNext ==
  \/ Construct
  \/ CallSetup
  \/ SetupReturn
  \/ CreateMesh
  \/ CreateLight
  \/ AddToScene
  \/ GetObject

SceneSpec == InitScene /\ [][SceneNext]_vars

\* ----------------------------------------------------------------- frames
\* the frames on record: the activations of animate() on the stack, and the
\* last one that returned
Activations == {stack[i] : i \in {j \in DOMAIN stack : stack[j].fn = "animate"}}
Select(log, ops) == SelectSeq(log, LAMBDA e : e.op \in ops)
Ops(log) == [i \in DOMAIN log |-> log[i].op]
UpdatePassed == "update" \in DOMAIN options
SetupPassed == "setup" \in DOMAIN options

\* C1: every frame invokes the user update exactly once, the update callback
\* when one was passed to the constructor and the update() method otherwise,
\* with the arguments (deltaTime, elapsedTime); a frame that has not reached
\* lines 222-226 yet has not invoked it.
C1_UpdateOncePerFrame ==
  /\ \A a \in Activations :
       LET u == Select(a.log, {"update"})
       IN IF a.pc = "update" THEN u = <<>>
          ELSE /\ Len(u) = 1
               /\ (u[1].impl = "callback") = UpdatePassed
               /\ u[1].impl \in {"callback", "base", "sub"}
               /\ u[1].args = <<a.dt, a.et>>
  /\ lastFrame # NoFrame =>
       LET u == Select(lastFrame.log, {"update"})
       IN /\ Len(u) = 1
          /\ (u[1].impl = "callback") = UpdatePassed
          /\ u[1].nargs = 2

C1_Witness ==
  /\ lastFrame # NoFrame
  /\ \E i \in DOMAIN lastFrame.log :
       lastFrame.log[i].op = "update" /\ lastFrame.log[i].impl = "callback"

\* C2: constructing a driver invokes the user setup exactly once, the setup
\* callback when one was passed and the setup() method otherwise, and that
\* invocation finds scene, camera and renderer created, the two default
\* lights in the scene and the resize listener registered, with no update
\* and no render done yet.
C2_SetupOnceAfterAssembly ==
  /\ Len(hist.setups) <= 1
  /\ (phase = "new" \/ (phase = "constructing" /\ stack[1].pc = "setup"))
       => hist.setups = <<>>
  /\ (phase = "ready" \/ (phase = "constructing" /\ stack[1].pc # "setup"))
       => /\ Len(hist.setups) = 1
          /\ (hist.setups[1].impl = "callback") = SetupPassed
          /\ hist.setups[1].snap.scene
          /\ hist.setups[1].snap.camera
          /\ hist.setups[1].snap.renderer
          /\ hist.setups[1].snap.lights = <<"AmbientLight", "DirectionalLight">>
          /\ hist.setups[1].snap.listener
          /\ ~hist.setups[1].snap.updated
          /\ ~hist.setups[1].snap.rendered

C2_Witness ==
  /\ phase = "ready"
  /\ hist.rendered
  /\ hist.setups # <<>>
  /\ hist.setups[1].impl = "callback"

\* C3: with no setup callback in options, the setup executed during
\* initialization of a subclass that overrides setup() is the subclass's.
C3_SubclassSetupRuns ==
  (klass # "base" /\ ~SetupPassed /\ hist.setups # <<>>)
    => \A i \in DOMAIN hist.setups : hist.setups[i].impl = "sub"

\* C4: with no update callback in options, every frame of a subclass that
\* overrides update() executes the subclass's update, the first frame run
\* by the auto-start inside the constructor included.
C4_SubclassUpdateRuns ==
  (klass # "base" /\ ~UpdatePassed)
    => \A log \in {a.log : a \in Activations}
                  \cup (IF lastFrame = NoFrame THEN {} ELSE {lastFrame.log}) :
         \A i \in DOMAIN log : log[i].op = "update" => log[i].impl = "sub"

\* C5: the browser never holds more than one frame callback of the driver.
C5_OnePendingFrame == Cardinality(pending) <= 1

\* a frame started from inside the update callback of another frame
C5_Witness ==
  /\ Depth = 2
  /\ Cardinality(pending) = 1
  /\ hist.disposed

\* C6: a frame fired by the browser while the loop is on schedules exactly
\* one successor frame; so unless the loop is stopped for good (by
\* stopAnimation or dispose), the user update and the render are executed
\* infinitely often.
C6_LoopPerpetual ==
  /\ [][(FireFrame /\ isAnimating) =>
          (Cardinality(pending') = 1 /\ animationId' \in pending')]_vars
  /\ \/ <>[](~isAnimating)
     \/ ([]<><<CallUpdate>>_vars /\ []<><<FrameReturn>>_vars)

\* the loop has run a frame fired by the browser and holds its successor
C6_Witness ==
  /\ phase = "ready"
  /\ stack = <<>>
  /\ isAnimating
  /\ lastFrame # NoFrame
  /\ animationId = 2
  /\ pending = {2}

\* C7: a frame runs controls.update (when controls exist), then the user
\* update, then renderer.render(scene, camera) exactly once; nothing is
\* rendered before the user update of the frame has returned.
FrameOrder ==
  (IF controls # Null THEN <<"controls.update">> ELSE <<>>)
  \o <<"update", "render">>
OrderedOps(log) == Ops(Select(log, {"controls.update", "update", "render"}))

C7_FrameOrder ==
  /\ \A a \in Activations :
       OrderedOps(a.log) =
         SubSeq(FrameOrder, 1,
                Len(FrameOrder) - (IF a.pc = "update" THEN 2 ELSE 1))
  /\ lastFrame # NoFrame =>
       /\ OrderedOps(lastFrame.log) = FrameOrder
       /\ \A i \in DOMAIN lastFrame.log :
            lastFrame.log[i].op = "render" => lastFrame.log[i].nargs = 2

C7_Witness ==
  /\ lastFrame # NoFrame
  /\ controls # Null
  /\ Depth = 1

\* C8: autoStart defaults to true.  When user code called no method of the
\* driver during construction, the constructor returns with the loop running
\* (isAnimating, one frame pending) for every options.autoStart other than
\* exactly false, and with the loop not running (not isAnimating, no frame
\* pending, no update invoked) when options.autoStart is false.
C8_AutoStartDefault ==
  (phase = "ready" /\ ~hist.ctorCalls) =>
    IF Get(options, "autoStart") # "false"
    THEN hist.built[1].isAnimating /\ hist.built[1].pending = 1
    ELSE /\ ~hist.built[1].isAnimating
         /\ hist.built[1].pending = 0
         /\ ~hist.built[1].updated

\* C9: antialias, shadows and controls default to true: after construction
\* each flag of config is false only when the option was passed as exactly
\* false, and for every other value of the option the renderer antialiases,
\* shadow maps are enabled and the directional light casts shadows, and
\* orbit controls are created when THREE.OrbitControls is available.
C9_FlagsDefaultTrue ==
  phase # "new" =>
    /\ \A k \in {"antialias", "shadows", "controls"} :
         config[k] = "false" => Get(options, k) = "false"
    /\ Truthy(renderer.antialias) = (Get(options, "antialias") # "false")
    /\ renderer.shadowMap = (Get(options, "shadows") # "false")
    /\ scene.children[2].castShadow = (Get(options, "shadows") # "false")
    /\ (controls # Null) = (Get(options, "controls") # "false" /\ libs.orbit)

\* C10: after a resize event delivered between construction and dispose,
\* config.width and config.height are the inner size of the window,
\* camera.aspect is config.width / config.height and the renderer has the
\* size (config.width, config.height).
C10_ResizeForwarded ==
  (hist.resized /\ ~hist.disposed) =>
    /\ config.width = window[1]
    /\ config.height = window[2]
    /\ camera.aspect = Quotient(window[1], window[2])
    /\ renderer.size = <<window[1], window[2]>>

\* a resize of a driver that was given its own width
C10_Witness ==
  /\ hist.resized
  /\ ~hist.disposed
  /\ "width" \in DOMAIN options
  /\ window = <<600, 600>>

\* C11 as stated: once dispose() has returned, and unless the user calls
\* startAnimation() again, the loop is stopped: isAnimating is false,
\* animationId is null and the browser holds no frame callback that could
\* trigger an update or a render.
C11_StoppedAfterDispose ==
  (hist.disposed /\ hist.restart # "user")
    => (~isAnimating /\ animationId = NoId /\ pending = {})

\* C11 (amended): once dispose() has returned, and until startAnimation()
\* is called again by the user or by the auto-start of init, the loop is
\* stopped: isAnimating is false, animationId is null and the browser
\* holds no frame callback.
C11_StoppedUntilRestart ==
  (hist.disposed /\ hist.restart = "none")
    => (~isAnimating /\ animationId = NoId /\ pending = {})

\* dispose() of a driver whose loop was running
C11_Witness ==
  /\ phase = "ready"
  /\ stack = <<>>
  /\ hist.disposed
  /\ hist.restart = "none"
  /\ hist.built[1].isAnimating
  /\ ~hist.ctorCalls

\* C12: once dispose() has returned the renderer's canvas is no longer a
\* child of the container, and a resize of the window changes neither
\* config.width/height, nor camera.aspect, nor the renderer's size.
C12_ResizeIgnoredAfterDispose ==
  /\ [](hist.disposed => canvasInDom = 0)
  /\ [][(hist.disposed /\ window' # window)
          => (config' = config /\ camera' = camera /\ renderer' = renderer)]_vars

\* the window was resized after dispose(): the driver still holds the size
\* the window had before
C12_Witness ==
  /\ phase = "ready"
  /\ hist.disposed
  /\ hist.resized
  /\ "width" \notin DOMAIN options
  /\ config.width # window[1]
  /\ renderer.size[1] # window[1]
  /\ canvasInDom = 0

\* C17: once the constructor has run init, scene, camera and renderer exist
\* and controls exist exactly when config.controls is truthy and
\* THREE.OrbitControls is available; the user setup finds the canvas appended
\* to the container exactly once and exactly two lights in the scene, one
\* ambient and one directional, the directional one casting shadows exactly
\* when config.shadows is truthy.
C17_AssembledBeforeSetup ==
  phase # "new" =>
    /\ scene # Null /\ camera # Null /\ renderer # Null
    /\ (controls # Null) <=> (Truthy(config.controls) /\ libs.orbit)
    /\ \A i \in DOMAIN hist.setups :
         /\ hist.setups[i].snap.canvas = 1
         /\ hist.setups[i].snap.lights = <<"AmbientLight", "DirectionalLight">>
         /\ hist.setups[i].snap.casts = <<FALSE, Truthy(config.shadows)>>

\* a driver built with shadows off and controls on
C17_Witness ==
  /\ phase = "ready"
  /\ Len(hist.setups) = 1
  /\ ~Truthy(config.shadows)
  /\ controls # Null

C13_CreateMeshAddsAndRegisters ==
  result.op = "createMesh" =>
    LET n == Len(scene.children)
        name == result.args.options.name
    IN /\ n = Len(result.scene0.children) + 1
       /\ SubSeq(scene.children, 1, n - 1) = result.scene0.children
       /\ scene.children[n] = result.ret
       /\ result.ret.type = "Mesh"
       /\ \A i \in 1..(n - 1) : scene.children[i] # result.ret
       /\ ToBoolean(name) =>
            /\ result.ret.name = name.str
            /\ name.str \in DOMAIN objects
            /\ objects[name.str] = result.ret
            /\ getObject(name.str) = result.ret

\* createMesh was called from the setup callback with a name and a scale
C13_Witness ==
  /\ result.op = "createMesh"
  /\ result.args.options.name = String("box")
  /\ result.args.options.scale = Number(2)
  /\ hist.ctorCalls
  /\ objects["box"].scale = <<2, 2, 2>>

\* C14: createLight with a type that equals, ignoring case, one of ambient,
\* directional, point, spot, hemisphere returns a light of that class, not
\* null, adds exactly that one object to the scene, and registers it in
\* this.objects under options.name when that is a non-empty string.
C14_CreateLightKnownType ==
  (result.op = "createLight" /\ result.args.type.lower \in DOMAIN LightClass) =>
    LET n == Len(scene.children)
        name == result.args.options.name
    IN /\ result.ret # Null
       /\ result.ret.type = LightClass[result.args.type.lower]
       /\ n = Len(result.scene0.children) + 1
       /\ SubSeq(scene.children, 1, n - 1) = result.scene0.children
       /\ scene.children[n] = result.ret
       /\ ToBoolean(name) =>
            /\ result.ret.name = name.str
            /\ name.str \in DOMAIN objects
            /\ objects[name.str] = result.ret

\* createLight('POINT', {name: 'lamp', ...})
C14_Witness ==
  /\ result.op = "createLight"
  /\ result.args.type = Cased("point", {1, 2, 3, 4, 5})
  /\ result.args.options.name = String("lamp")
  /\ objects["lamp"].type = "PointLight"

\* C15: createLight with any other type string warns on the console and
\* returns null; the children of the scene and this.objects are what they
\* were before the call, also when options.name is given.
C15_CreateLightUnknownType ==
  (result.op = "createLight" /\ result.args.type.lower \notin DOMAIN LightClass) =>
    /\ result.ret = Null
    /\ result.warned
    /\ scene = result.scene0
    /\ objects = result.objects0

\* createLight('laser', {name: 'lamp', ...})
C15_Witness ==
  /\ result.op = "createLight"
  /\ result.args.type = Cased("laser", {})
  /\ result.args.options.name = String("lamp")
  /\ result.ret = Null
  /\ "lamp" \notin DOMAIN objects

\* C16: getObject(name) returns the object registered under name in
\* this.objects when there is one, otherwise the object of the scene that
\* carries the name, otherwise null, and never anything else.
C16_GetObjectResult ==
  result.op = "getObject" =>
    LET name == result.args.name
    IN result.ret =
         IF name \in DOMAIN objects THEN objects[name]
         ELSE IF getObjectByName(scene, name) # Absent
              THEN getObjectByName(scene, name)
              ELSE Null

\* C19: the mesh returned by createMesh has scale (n, n, n) for a numeric
\* options.scale n and (x, y, z) for an object, a missing component being 1,
\* for every requested value, 0 included; position and rotation are the
\* requested (x, y, z), a missing component being 0.
C19_MeshTransform ==
  result.op = "createMesh" =>
    LET Component(c, d) == IF c = Absent THEN d ELSE c.num
        Requested(v, d) ==
          IF v = Absent THEN <<d, d, d>>
          ELSE IF "num" \in DOMAIN v THEN <<v.num, v.num, v.num>>
          ELSE <<Component(v.x, d), Component(v.y, d), Component(v.z, d)>>
    IN /\ result.ret.scale = Requested(result.args.options.scale, 1)
       /\ result.ret.position = Requested(result.args.options.position, 0)
       /\ result.ret.rotation = Requested(result.args.options.rotation, 0)

\* C20: a light made by createLight has the colour and the intensity given
\* in options, intensity 0 and colour 0x000000 included, and white and 1
\* only when they are absent.
C20_LightColorIntensity ==
  (result.op = "createLight" /\ result.ret # Null) =>
    /\ result.ret.intensity =
         IF result.args.options.intensity = Absent THEN 1
         ELSE result.args.options.intensity.num
    /\ result.ret.color =
         IF result.args.options.color = Absent THEN White
         ELSE result.args.options.color.num

\* C21: when stopAnimation() was called with isAnimating true then, from its
\* return until startAnimation() is called, isAnimating is false,
\* animationId is null, the browser holds no frame callback, and no frame
\* enters the user update.
C21_StoppedUntilStart ==
  /\ [](hist.loop = "stop"
          => (~isAnimating /\ animationId = NoId /\ pending = {}
              /\ \A a \in Activations : a.pc # "update"))
  /\ [][hist.loop = "stop"
          => ~(/\ stack # <<>> /\ stack' # <<>>
               /\ Top.pc = "update"
               /\ stack'[Len(stack')].pc = "in_update")]_vars

\* stopAnimation() at the top level stopped a loop that had run frames
C21_Witness ==
  /\ phase = "ready"
  /\ stack = <<>>
  /\ hist.loop = "stop"
  /\ hist.updated
  /\ ~hist.disposed
  /\ lastFrame # NoFrame

\* activations of animate() on the stack stk
Frames(stk) == Len(SelectSeq(stk, LAMBDA a : a.fn = "animate"))

\* C22: a call of startAnimation() (by user code or by the auto-start of
\* init) while isAnimating is true changes nothing: no frame is run, so no
\* update and no render, no frame callback is scheduled and animationId
\* keeps its value.  A call while isAnimating is false sets isAnimating,
\* schedules exactly one frame callback, whose handle is animationId, and
\* runs one frame synchronously: that frame is on the stack, about to invoke
\* the user update.
C22_StartIdempotent ==
  [][(StartAnimation \/ (SetupReturn /\ Truthy(config.autoStart))) =>
       IF isAnimating
       THEN /\ UNCHANGED <<isAnimating, animationId, pending, lastFrame>>
            /\ Frames(stack') = Frames(stack)
            /\ hist'.updated = hist.updated
            /\ hist'.rendered = hist.rendered
       ELSE /\ isAnimating'
            /\ animationId' # NoId
            /\ animationId' \notin pending
            /\ pending' = pending \cup {animationId'}
            /\ Frames(stack') = Frames(stack) + 1
            /\ stack'[Len(stack')].fn = "animate"
            /\ stack'[Len(stack')].pc = "update"
            /\ Select(stack'[Len(stack')].log, {"requestAnimationFrame"})
                 = <<Ev("requestAnimationFrame", "", <<>>)>>
            /\ Select(stack'[Len(stack')].log, {"update", "render"}) = <<>>
    ]_vars

\* startAnimation() was called at the top level on a running loop
C22_Witness ==
  /\ phase = "ready"
  /\ stack = <<>>
  /\ hist.loop = "noop"
  /\ isAnimating
  /\ Cardinality(pending) = 1
  /\ animationId \in pending
  /\ lastFrame # NoFrame

====
